---- MODULE Spec2Model ----
(***************************************************************************)
(* A model of the "eventually" task-manager backend (src-tauri/src):       *)
(* the tasks and categories tables of the SQLite store, the commands of    *)
(* commands/tasks.rs and commands/categories.rs, the statement-level       *)
(* interleaving of reorder_task on the connection pool, and the tree       *)
(* builder of models/task.rs.                                              *)
(*                                                                         *)
(* An Option<T> is modelled as a sequence: None is << >> and Some(x) is    *)
(* <<x>>, so SQL's "IS ?" comparison is plain equality.                    *)
(***************************************************************************)
EXTENDS Integers, Sequences, FiniteSets, TLC

VARIABLES
    tasks,        \* the tasks table: row id -> Task
    taskSeq,      \* AUTOINCREMENT counter of the tasks table
    categories,   \* the categories table: row id -> Category
    catSeq,       \* AUTOINCREMENT counter of the categories table
    last,         \* history: the command that returned last, with its result
    pc,           \* per connection-pool worker: position inside reorder_task
    local,        \* per worker: the locals of its running reorder_task
    observed,     \* the last answer of get_all_tasks, as Some(list)
    tpc,          \* build_task_tree: "idle", "run" or "done"
    tinput,       \* build_task_tree: the argument `tasks`
    torder,       \* build_task_tree: the iteration order of the HashMap `nodes`
    nodes,        \* build_task_tree: the working index id -> TaskTree
    parent_map,   \* build_task_tree: parent id -> child ids
    root_ids,     \* build_task_tree: the root ids still to be built
    stack,        \* build_task_tree: the frames of the build_subtree recursion
    forest        \* build_task_tree: the trees collected so far

dbVars == <<tasks, taskSeq, categories, catSeq>>
procVars == <<pc, local, observed>>
treeVars == <<tpc, tinput, torder, nodes, parent_map, root_ids, stack, forest>>
vars == <<tasks, taskSeq, categories, catSeq, last, pc, local, observed,
          tpc, tinput, torder, nodes, parent_map, root_ids, stack, forest>>

----------------------------------------------------------------------------
(* Bounds of the model *)

\* tasks created in the create/reorder specification
MaxTasks == 4
\* tasks created in the specification of all commands
MaxCmdTasks == 2
\* tasks created in the specification with a reader
MaxReaderTasks == 3
\* the reading of the clock, chrono::Utc::now().timestamp()
Epoch == 1
\* length of the list handed to build_task_tree
MaxTreeTasks == 3

----------------------------------------------------------------------------
(* Options, sequences *)

None == << >>

Some(x) == <<x>>

IsSome(o) == Len(o) = 1

Unwrap(o) == o[1]

SetMax(S) == CHOOSE m \in S : \A x \in S : x <= m

Range(s) == {s[i] : i \in 1..Len(s)}

\* every arrangement of the set S as a sequence without repetition
Perms(S) == {s \in [1..Cardinality(S) -> S] : \A i, j \in 1..Cardinality(S) : i # j => s[i] # s[j]}

RemoveKey(f, k) == [x \in DOMAIN f \ {k} |-> f[x]]

----------------------------------------------------------------------------
(* Titles: a String is a sequence of characters; "ee" stands for a         *)
(* two-byte character such as U+00E9.                                      *)

Whitespace == {" "}

Utf8Len(c) == IF c = "ee" THEN 2 ELSE 1

\* str::len: the number of bytes of the UTF-8 encoding, whose characters take
\* one to four bytes
ByteLen(s) ==
    LET n(w) == Cardinality({i \in 1..Len(s) : Utf8Len(s[i]) = w})
    IN n(1) + 2 * n(2) + 3 * n(3) + 4 * n(4)

RECURSIVE TrimStart(_)
TrimStart(s) == IF s # << >> /\ Head(s) \in Whitespace THEN TrimStart(Tail(s)) ELSE s

RECURSIVE TrimEnd(_)
TrimEnd(s) ==
    IF s # << >> /\ s[Len(s)] \in Whitespace THEN TrimEnd(SubSeq(s, 1, Len(s) - 1)) ELSE s

Trim(s) == TrimEnd(TrimStart(s))

MaxTitleLen == 500

validate_task_title(title) ==
    LET trimmed == Trim(title) IN
    IF trimmed = << >> THEN "ValidationError"
    ELSE IF ByteLen(trimmed) > MaxTitleLen THEN "ValidationError"
    ELSE "Ok"

----------------------------------------------------------------------------
(* The schema *)

Priorities == {"Urgent", "High", "Medium", "Low"}

DefaultCategories ==
    << [name |-> "Personal", color |-> "#9ece6a"],
       [name |-> "Tech Guild", color |-> "#7aa2f7"],
       [name |-> "Work", color |-> "#e0af68"],
       [name |-> "Other", color |-> "#414868"] >>

\* the categories table after the first run of run_migrations at time now
SeedCategories(now) ==
    [i \in 1..Len(DefaultCategories) |->
        [id |-> i, name |-> DefaultCategories[i].name, color |-> DefaultCategories[i].color,
         created_at |-> now, updated_at |-> now]]

\* the tasks table without CHECK(priority IN ...)
RowOkAnyPriority(tbl, cats, row) ==
    /\ IsSome(row.category_id) => Unwrap(row.category_id) \in DOMAIN cats
    /\ IsSome(row.parent_id) => Unwrap(row.parent_id) \in DOMAIN tbl

\* CHECK(priority IN ...) and the two FOREIGN KEY clauses, on a row of table tbl
RowOk(tbl, cats, row) ==
    /\ row.priority \in Priorities
    /\ IsSome(row.category_id) => Unwrap(row.category_id) \in DOMAIN cats
    /\ IsSome(row.parent_id) => Unwrap(row.parent_id) \in DOMAIN tbl

\* CascadeFrom that removes the children of the deleted rows only
CascadeChildren(tbl, D) ==
    D \cup {i \in DOMAIN tbl : IsSome(tbl[i].parent_id) /\ Unwrap(tbl[i].parent_id) \in D}

\* the rows ON DELETE CASCADE removes with row id: id and all its descendants
RECURSIVE CascadeFrom(_, _)
CascadeFrom(tbl, D) ==
    LET more == {i \in DOMAIN tbl : IsSome(tbl[i].parent_id) /\ Unwrap(tbl[i].parent_id) \in D}
    IN IF more \subseteq D THEN D ELSE CascadeFrom(tbl, D \cup more)

----------------------------------------------------------------------------
(* Groups and positions *)

InGroup(t, parent_id, category_id) ==
    t.parent_id = parent_id /\ t.category_id = category_id

GroupOf(tbl, parent_id, category_id) ==
    {i \in DOMAIN tbl : InGroup(tbl[i], parent_id, category_id)}

Siblings(tbl, id) == GroupOf(tbl, tbl[id].parent_id, tbl[id].category_id)

\* the positions of a group are exactly 0..k-1, without duplicate
DenseGroup(tbl, G) ==
    /\ {tbl[i].position : i \in G} = 0..(Cardinality(G) - 1)
    /\ \A i, j \in G : tbl[i].position = tbl[j].position => i = j

Dense(tbl) == \A i \in DOMAIN tbl : DenseGroup(tbl, Siblings(tbl, i))

\* get_next_position with  parent_id = ? AND category_id = ?  for IS: in SQL
\* NULL = NULL is not true, so a group with an absent parent or category is empty
get_next_position_eq(tbl, parent_id, category_id) ==
    LET ps == {tbl[i].position : i \in
                 {j \in GroupOf(tbl, parent_id, category_id) :
                     IsSome(parent_id) /\ IsSome(category_id)}}
    IN IF ps = {} THEN 0 ELSE SetMax(ps) + 1

get_next_position(tbl, parent_id, category_id) ==
    LET ps == {tbl[i].position : i \in GroupOf(tbl, parent_id, category_id)}
    IN IF ps = {} THEN 0 ELSE SetMax(ps) + 1

----------------------------------------------------------------------------
(* Commands, each run alone on the store *)

\* From<sqlx::Error> without the RowNotFound arm
AppErrorAllDatabase(err) == "DatabaseError"

\* impl From<sqlx::Error> for AppError
AppErrorFrom(err) ==
    IF err = "RowNotFound" THEN "NotFound" ELSE "DatabaseError"

\* what a specification that records the commands starts from
NoCommand == [op |-> "none", id |-> 0, old |-> 0, new |-> 0, result |-> "Ok"]

\* what a specification that does not record the commands keeps
Unrecorded == [op |-> "unrecorded", id |-> 0, old |-> 0, new |-> 0, result |-> "Ok"]

\* a command returns: its arguments and its result are recorded
Done(op, id, old, new, result) ==
    last' = IF last = Unrecorded THEN Unrecorded
            ELSE [op |-> op, id |-> id, old |-> old, new |-> new, result |-> result]

InsertedTask(input, id, position, now) ==
    [id |-> id, title |-> Trim(input.title), description |-> input.description,
     category_id |-> input.category_id, priority |-> input.priority,
     parent_id |-> input.parent_id, is_done |-> FALSE, position |-> position,
     due_date |-> input.due_date, created_at |-> now, updated_at |-> now,
     completed_at |-> None]

create_task(input, now) ==
    /\ UNCHANGED <<categories, catSeq, procVars, treeVars>>
    /\ IF validate_task_title(input.title) # "Ok"
       THEN /\ Done("create_task", 0, 0, 0, "ValidationError")
            /\ UNCHANGED <<tasks, taskSeq>>
       ELSE LET position == get_next_position(tasks, input.parent_id, input.category_id)
                id == taskSeq + 1
                row == InsertedTask(input, id, position, now)
                tbl == (id :> row) @@ tasks
            IN IF RowOk(tbl, categories, row)
               THEN /\ tasks' = tbl
                    /\ taskSeq' = id
                    /\ Done("create_task", id, 0, position, "Ok")
               ELSE /\ Done("create_task", 0, 0, 0, "DatabaseError")
                    /\ UNCHANGED <<tasks, taskSeq>>

\* UpdatedTask that binds the description whether or not it is supplied
UpdatedTaskBindsDescription(t, input, now) ==
    [id |-> t.id,
     title |-> IF IsSome(input.title) THEN Unwrap(input.title) ELSE t.title,
     description |-> input.description,
     category_id |-> IF IsSome(input.category_id) THEN input.category_id ELSE t.category_id,
     priority |-> IF IsSome(input.priority) THEN Unwrap(input.priority) ELSE t.priority,
     parent_id |-> IF IsSome(input.parent_id) THEN input.parent_id ELSE t.parent_id,
     is_done |-> IF IsSome(input.is_done) THEN Unwrap(input.is_done) ELSE t.is_done,
     position |-> IF IsSome(input.position) THEN Unwrap(input.position) ELSE t.position,
     due_date |-> IF IsSome(input.due_date) THEN input.due_date ELSE t.due_date,
     created_at |-> t.created_at,
     updated_at |-> now,
     completed_at |-> IF IsSome(input.is_done)
                      THEN (IF Unwrap(input.is_done) THEN Some(now) ELSE None)
                      ELSE t.completed_at]

\* UpdatedTask without the  completed_at = NULL  branch of is_done = false
UpdatedTaskKeepsStamp(t, input, now) ==
    [id |-> t.id,
     title |-> IF IsSome(input.title) THEN Unwrap(input.title) ELSE t.title,
     description |-> IF IsSome(input.description) THEN input.description ELSE t.description,
     category_id |-> IF IsSome(input.category_id) THEN input.category_id ELSE t.category_id,
     priority |-> IF IsSome(input.priority) THEN Unwrap(input.priority) ELSE t.priority,
     parent_id |-> IF IsSome(input.parent_id) THEN input.parent_id ELSE t.parent_id,
     is_done |-> IF IsSome(input.is_done) THEN Unwrap(input.is_done) ELSE t.is_done,
     position |-> IF IsSome(input.position) THEN Unwrap(input.position) ELSE t.position,
     due_date |-> IF IsSome(input.due_date) THEN input.due_date ELSE t.due_date,
     created_at |-> t.created_at,
     updated_at |-> now,
     completed_at |-> IF IsSome(input.is_done) /\ Unwrap(input.is_done)
                      THEN Some(now) ELSE t.completed_at]

\* the row after UPDATE tasks SET updated_at = now, <supplied fields> WHERE id
UpdatedTask(t, input, now) ==
    [id |-> t.id,
     title |-> IF IsSome(input.title) THEN Unwrap(input.title) ELSE t.title,
     description |-> IF IsSome(input.description) THEN input.description ELSE t.description,
     category_id |-> IF IsSome(input.category_id) THEN input.category_id ELSE t.category_id,
     priority |-> IF IsSome(input.priority) THEN Unwrap(input.priority) ELSE t.priority,
     parent_id |-> IF IsSome(input.parent_id) THEN input.parent_id ELSE t.parent_id,
     is_done |-> IF IsSome(input.is_done) THEN Unwrap(input.is_done) ELSE t.is_done,
     position |-> IF IsSome(input.position) THEN Unwrap(input.position) ELSE t.position,
     due_date |-> IF IsSome(input.due_date) THEN input.due_date ELSE t.due_date,
     created_at |-> t.created_at,
     updated_at |-> now,
     completed_at |-> IF IsSome(input.is_done)
                      THEN (IF Unwrap(input.is_done) THEN Some(now) ELSE None)
                      ELSE t.completed_at]

update_task(id, input, now) ==
    /\ UNCHANGED <<taskSeq, categories, catSeq, procVars, treeVars>>
    /\ IF IsSome(input.title) /\ validate_task_title(Unwrap(input.title)) # "Ok"
       THEN /\ Done("update_task", id, 0, 0, "ValidationError")
            /\ UNCHANGED tasks
       ELSE IF id \notin DOMAIN tasks
       THEN /\ Done("update_task", id, 0, 0, AppErrorFrom("RowNotFound"))
            /\ UNCHANGED tasks
       ELSE LET row == UpdatedTask(tasks[id], input, now)
                tbl == [tasks EXCEPT ![id] = row]
            IN IF RowOk(tbl, categories, row)
               THEN /\ tasks' = tbl
                    /\ Done("update_task", id, 0, 0, "Ok")
               ELSE /\ Done("update_task", id, 0, 0, "DatabaseError")
                    /\ UNCHANGED tasks

\* delete_task that reports a DELETE which affected no row
delete_task_checks_rows(id) ==
    /\ UNCHANGED <<taskSeq, categories, catSeq, procVars, treeVars>>
    /\ LET gone == IF id \in DOMAIN tasks THEN CascadeFrom(tasks, {id}) ELSE {}
       IN /\ tasks' = [i \in DOMAIN tasks \ gone |-> tasks[i]]
          /\ Done("delete_task", id, Cardinality(DOMAIN tasks),
                  Cardinality(DOMAIN tasks \ gone),
                  IF gone = {} THEN "NotFound" ELSE "Ok")

delete_task(id) ==
    /\ UNCHANGED <<taskSeq, categories, catSeq, procVars, treeVars>>
    /\ LET gone == IF id \in DOMAIN tasks THEN CascadeFrom(tasks, {id}) ELSE {}
       IN /\ tasks' = [i \in DOMAIN tasks \ gone |-> tasks[i]]
          \* the history records the number of rows before and after
          /\ Done("delete_task", id, Cardinality(DOMAIN tasks),
                  Cardinality(DOMAIN tasks \ gone), "Ok")

\* delete_category under  category_id ... ON DELETE CASCADE  for SET NULL
delete_category_cascade(id) ==
    /\ UNCHANGED <<taskSeq, catSeq, procVars, treeVars>>
    /\ categories' = [c \in DOMAIN categories \ {id} |-> categories[c]]
    /\ tasks' = [i \in {j \in DOMAIN tasks : tasks[j].category_id # Some(id)} |-> tasks[i]]
    /\ Done("delete_category", id,
            Cardinality({i \in DOMAIN tasks : tasks[i].category_id = Some(id)}), 0, "Ok")

delete_category(id) ==
    /\ UNCHANGED <<taskSeq, catSeq, procVars, treeVars>>
    /\ categories' = [c \in DOMAIN categories \ {id} |-> categories[c]]
    /\ tasks' = [i \in DOMAIN tasks |->
                    IF tasks[i].category_id = Some(id)
                    THEN [tasks[i] EXCEPT !.category_id = None]
                    ELSE tasks[i]]
    \* the history records the number of tasks that were in the category
    /\ Done("delete_category", id,
            Cardinality({i \in DOMAIN tasks : tasks[i].category_id = Some(id)}), 0, "Ok")

\* the categories table without UNIQUE on name
NameNotChecked(cats, id) == TRUE

\* name TEXT NOT NULL UNIQUE, on row id of the categories table cats
NameUnique(cats, id) ==
    \A c \in DOMAIN cats \ {id} : cats[c].name # cats[id].name

InsertedCategory(input, id, now) ==
    [id |-> id, name |-> input.name, color |-> input.color,
     created_at |-> now, updated_at |-> now]

create_category(input, now) ==
    /\ UNCHANGED <<tasks, taskSeq, procVars, treeVars>>
    /\ LET id == catSeq + 1
           cats == (id :> InsertedCategory(input, id, now)) @@ categories
       IN IF NameUnique(cats, id)
          THEN /\ categories' = cats
               /\ catSeq' = id
               /\ Done("create_category", id, 0, 0, "Ok")
          ELSE /\ Done("create_category", 0, 0, 0, "DatabaseError")
               /\ UNCHANGED <<categories, catSeq>>

\* the row after UPDATE categories SET updated_at = now, <supplied fields> WHERE id
UpdatedCategory(c, input, now) ==
    [id |-> c.id,
     name |-> IF IsSome(input.name) THEN Unwrap(input.name) ELSE c.name,
     color |-> IF IsSome(input.color) THEN Unwrap(input.color) ELSE c.color,
     created_at |-> c.created_at,
     updated_at |-> now]

update_category(id, input, now) ==
    /\ UNCHANGED <<tasks, taskSeq, catSeq, procVars, treeVars>>
    /\ IF id \notin DOMAIN categories
       THEN /\ Done("update_category", id, 0, 0, AppErrorFrom("RowNotFound"))
            /\ UNCHANGED categories
       ELSE LET cats == [categories EXCEPT ![id] = UpdatedCategory(categories[id], input, now)]
            IN IF NameUnique(cats, id)
               THEN /\ categories' = cats
                    /\ Done("update_category", id, 0, 0, "Ok")
               ELSE /\ Done("update_category", id, 0, 0, "DatabaseError")
                    /\ UNCHANGED categories

\* the rows the seeding INSERTs add to an empty categories table whose
\* AUTOINCREMENT sequence stands at seq
SeededFrom(seq, now) ==
    [i \in (seq + 1)..(seq + Len(DefaultCategories)) |->
        [id |-> i, name |-> DefaultCategories[i - seq].name,
         color |-> DefaultCategories[i - seq].color,
         created_at |-> now, updated_at |-> now]]

\* run_migrations that inserts every default category whose name is not stored
run_migrations_restores(now) ==
    /\ UNCHANGED <<tasks, taskSeq, procVars, treeVars>>
    /\ LET missing == {k \in 1..Len(DefaultCategories) :
                          \A c \in DOMAIN categories :
                              categories[c].name # DefaultCategories[k].name}
           seeded == SeededFrom(catSeq, now)
       IN /\ categories' = [c \in DOMAIN categories \cup {catSeq + k : k \in missing} |->
                                IF c \in DOMAIN categories THEN categories[c] ELSE seeded[c]]
          /\ catSeq' = IF missing = {} THEN catSeq ELSE catSeq + Len(DefaultCategories)
    /\ Done("run_migrations", 0, 0, 0, "Ok")

\* CREATE TABLE / CREATE INDEX IF NOT EXISTS change nothing on a store that has
\* the tables; the default categories are inserted when the table counts 0 rows
run_migrations(now) ==
    /\ UNCHANGED <<tasks, taskSeq, procVars, treeVars>>
    /\ IF Cardinality(DOMAIN categories) = 0
       THEN /\ categories' = SeededFrom(catSeq, now)
            /\ catSeq' = catSeq + Len(DefaultCategories)
       ELSE UNCHANGED <<categories, catSeq>>
    /\ Done("run_migrations", 0, 0, 0, "Ok")

\* ShiftSiblings with the upper end of the moving-later range left out (< for <=)
ShiftSiblingsShort(tbl, parent_id, category_id, old_position, new_position) ==
    [i \in DOMAIN tbl |->
        IF ~InGroup(tbl[i], parent_id, category_id) THEN tbl[i]
        ELSE IF old_position < new_position
        THEN (IF tbl[i].position > old_position /\ tbl[i].position < new_position
              THEN [tbl[i] EXCEPT !.position = @ - 1] ELSE tbl[i])
        ELSE (IF tbl[i].position >= new_position /\ tbl[i].position < old_position
              THEN [tbl[i] EXCEPT !.position = @ + 1] ELSE tbl[i])]

\* ShiftSiblings without  parent_id IS ? AND category_id IS ?  in the WHERE clause
ShiftAnyGroup(tbl, parent_id, category_id, old_position, new_position) ==
    [i \in DOMAIN tbl |->
        IF old_position < new_position
        THEN (IF tbl[i].position > old_position /\ tbl[i].position <= new_position
              THEN [tbl[i] EXCEPT !.position = @ - 1] ELSE tbl[i])
        ELSE (IF tbl[i].position >= new_position /\ tbl[i].position < old_position
              THEN [tbl[i] EXCEPT !.position = @ + 1] ELSE tbl[i])]

\* UPDATE tasks SET position = position -/+ 1 WHERE <group> AND <range>
ShiftSiblings(tbl, parent_id, category_id, old_position, new_position) ==
    [i \in DOMAIN tbl |->
        IF ~InGroup(tbl[i], parent_id, category_id) THEN tbl[i]
        ELSE IF old_position < new_position
        THEN (IF tbl[i].position > old_position /\ tbl[i].position <= new_position
              THEN [tbl[i] EXCEPT !.position = @ - 1] ELSE tbl[i])
        ELSE (IF tbl[i].position >= new_position /\ tbl[i].position < old_position
              THEN [tbl[i] EXCEPT !.position = @ + 1] ELSE tbl[i])]

\* UPDATE tasks SET position = ? WHERE id = ?
SetPosition(tbl, id, new_position) ==
    [i \in DOMAIN tbl |-> IF i = id THEN [tbl[i] EXCEPT !.position = new_position] ELSE tbl[i]]

\* reorder_task that refuses a move to the position the task is at
reorder_task_rejects_same(id, new_position) ==
    /\ UNCHANGED <<taskSeq, categories, catSeq, procVars, treeVars>>
    /\ IF id \notin DOMAIN tasks
       THEN /\ Done("reorder_task", id, 0, new_position, "NotFound")
            /\ UNCHANGED tasks
       ELSE IF tasks[id].position = new_position
       THEN /\ Done("reorder_task", id, new_position, new_position, "InvalidInput")
            /\ UNCHANGED tasks
       ELSE /\ Done("reorder_task", id, tasks[id].position, new_position, "Ok")
            /\ tasks' = SetPosition(
                            ShiftSiblings(tasks, tasks[id].parent_id, tasks[id].category_id,
                                          tasks[id].position, new_position),
                            id, new_position)

\* reorder_task that shifts the top-level group before it looks the task up
reorder_task_shifts_unknown(id, new_position) ==
    /\ UNCHANGED <<taskSeq, categories, catSeq, procVars, treeVars>>
    /\ IF id \notin DOMAIN tasks
       THEN /\ Done("reorder_task", id, 0, new_position, AppErrorFrom("RowNotFound"))
            /\ tasks' = ShiftSiblings(tasks, None, None, 0, new_position)
       ELSE LET task == tasks[id]
                old_position == task.position
            IN /\ Done("reorder_task", id, old_position, new_position, "Ok")
               /\ IF old_position = new_position
                  THEN UNCHANGED tasks
                  ELSE tasks' = SetPosition(
                                   ShiftSiblings(tasks, task.parent_id, task.category_id,
                                                 old_position, new_position),
                                   id, new_position)

reorder_task(id, new_position) ==
    /\ UNCHANGED <<taskSeq, categories, catSeq, procVars, treeVars>>
    /\ IF id \notin DOMAIN tasks
       THEN /\ Done("reorder_task", id, 0, new_position, AppErrorFrom("RowNotFound"))
            /\ UNCHANGED tasks
       ELSE LET task == tasks[id]
                old_position == task.position
            IN /\ Done("reorder_task", id, old_position, new_position, "Ok")
               /\ IF old_position = new_position
                  THEN UNCHANGED tasks
                  ELSE tasks' = SetPosition(
                                   ShiftSiblings(tasks, task.parent_id, task.category_id,
                                                 old_position, new_position),
                                   id, new_position)

----------------------------------------------------------------------------
(* Initial state: a fresh store after create_pool and run_migrations *)

Workers == {1, 2}

NoLocal == [id |-> 0, old_position |-> 0, new_position |-> 0, parent_id |-> None, category_id |-> None]

DbInit ==
    /\ tasks = << >>
    /\ taskSeq = 0
    /\ categories = SeedCategories(Epoch)
    /\ catSeq = Len(DefaultCategories)

ProcIdle ==
    /\ pc = [w \in Workers |-> "idle"]
    /\ local = [w \in Workers |-> NoLocal]
    /\ observed = None

TreeIdle ==
    /\ tpc = "idle"
    /\ tinput = << >>
    /\ torder = << >>
    /\ nodes = << >>
    /\ parent_map = << >>
    /\ root_ids = << >>
    /\ stack = << >>
    /\ forest = << >>

Init == DbInit /\ last = Unrecorded /\ ProcIdle /\ TreeIdle

InitRecorded == DbInit /\ last = NoCommand /\ ProcIdle /\ TreeIdle

----------------------------------------------------------------------------
(* Inputs *)

TitleInputs == { <<" ", "a", " ">>, <<" ">> }

CreateInput(title, category_id, parent_id) ==
    [title |-> title, description |-> None, category_id |-> category_id,
     priority |-> "Medium", parent_id |-> parent_id, due_date |-> None]

\* the ids a request may name: every id in use, and the next one (not stored yet)
IdInputs(max) == 1..(max + 1)

\* the parents a request may name: none, the first task, a task never stored
ParentInputs(max) == {None, Some(1), Some(max + 1)}

CategoryInputs == {None, Some(1)}

----------------------------------------------------------------------------
(* Specification of create_task and reorder_task run one after another *)

CreateTaskCR ==
    /\ taskSeq < MaxTasks
    /\ \E title \in TitleInputs, c \in CategoryInputs, p \in ParentInputs(MaxTasks) :
          create_task(CreateInput(title, c, p), Epoch)

ReorderTaskCR ==
    \E id \in IdInputs(MaxTasks), new_position \in -1..MaxTasks : reorder_task(id, new_position)

NextCR == CreateTaskCR \/ ReorderTaskCR

SpecCreateReorder == Init /\ [][NextCR]_vars

\* C1: after any sequence of create_task and reorder_task calls the positions of
\* every (parent_id, category_id) group are exactly 0..k-1
C1_Dense == Dense(tasks)

----------------------------------------------------------------------------
(* Specification of create_task and of reorder_task with a target position *)
(* inside the task's group, run one after another                          *)

CreateTaskIR ==
    /\ taskSeq < MaxTasks
    /\ \E title \in TitleInputs, c \in CategoryInputs, p \in ParentInputs(MaxTasks) :
          create_task(CreateInput(title, c, p), Epoch)

ReorderTaskIR ==
    \E id \in IdInputs(MaxTasks), new_position \in 0..(MaxTasks - 1) :
        /\ id \in DOMAIN tasks => new_position < Cardinality(Siblings(tasks, id))
        /\ reorder_task(id, new_position)

NextIR == CreateTaskIR \/ ReorderTaskIR

SpecReorderInRange == InitRecorded /\ [][NextIR]_vars

\* the ids of a dense group in position order
OrderOf(tbl, G) == [p \in 1..Cardinality(G) |-> CHOOSE i \in G : tbl[i].position = p - 1]

\* the sequence s with id taken out and put back at (0-based) index new
Reinsert(s, id, new) ==
    LET Other(x) == x # id
        r == SelectSeq(s, Other)
    IN SubSeq(r, 1, new) \o <<id>> \o SubSeq(r, new + 1, Len(r))

\* what the claim says the position of sibling s is after T moved from old to new
ShiftedPosition(pos, old, new) ==
    IF old < new /\ pos > old /\ pos <= new THEN pos - 1
    ELSE IF old > new /\ pos >= new /\ pos < old THEN pos + 1
    ELSE pos

\* C3: reorder_task on a dense group with an in-range target shifts the siblings
\* between the old and the new position by one and puts the task at the new one
C3_Step ==
    (/\ last'.op = "reorder_task"
     /\ last'.result = "Ok"
     /\ last'.id \in DOMAIN tasks
     /\ DenseGroup(tasks, Siblings(tasks, last'.id))
     /\ last'.new \in 0..(Cardinality(Siblings(tasks, last'.id)) - 1)
     /\ last'.new # tasks[last'.id].position)
    => LET id == last'.id
           G == Siblings(tasks, id)
           old == tasks[id].position
           new == last'.new
       IN /\ DOMAIN tasks' = DOMAIN tasks
          /\ \A s \in G \ {id} : tasks'[s].position = ShiftedPosition(tasks[s].position, old, new)
          /\ tasks'[id].position = new
          /\ DenseGroup(tasks', G)
          /\ OrderOf(tasks', G) = Reinsert(OrderOf(tasks, G), id, new)

\* C3, as a property of every step
C3_ReorderMoves == [][C3_Step]_vars

\* the scenario of the spec: A, B, C created in the null/null group, then reorder(A, 2)
C3_Witness ==
    /\ last = [op |-> "reorder_task", id |-> 1, old |-> 0, new |-> 2, result |-> "Ok"]
    /\ GroupOf(tasks, None, None) = {1, 2, 3}
    /\ tasks[2].position = 0 /\ tasks[3].position = 1 /\ tasks[1].position = 2

----------------------------------------------------------------------------
(* reorder_task statement by statement on the pool, and get_all_tasks *)

\* SELECT * FROM tasks WHERE id = ?, then the old_position == new_position test
ReorderRead(w, id, new_position) ==
    /\ pc[w] = "idle"
    /\ UNCHANGED <<dbVars, observed, treeVars>>
    /\ IF id \notin DOMAIN tasks
       THEN /\ Done("reorder_task", id, 0, new_position, AppErrorFrom("RowNotFound"))
            /\ UNCHANGED <<pc, local>>
       ELSE IF tasks[id].position = new_position
       THEN /\ Done("reorder_task", id, new_position, new_position, "Ok")
            /\ UNCHANGED <<pc, local>>
       ELSE /\ local' = [local EXCEPT ![w] =
                            [id |-> id, old_position |-> tasks[id].position,
                             new_position |-> new_position,
                             parent_id |-> tasks[id].parent_id,
                             category_id |-> tasks[id].category_id]]
            /\ pc' = [pc EXCEPT ![w] = "shift"]
            /\ UNCHANGED last

\* the UPDATE that shifts the siblings
ReorderShift(w) ==
    /\ pc[w] = "shift"
    /\ tasks' = ShiftSiblings(tasks, local[w].parent_id, local[w].category_id,
                              local[w].old_position, local[w].new_position)
    /\ pc' = [pc EXCEPT ![w] = "set"]
    /\ UNCHANGED <<taskSeq, categories, catSeq, last, local, observed, treeVars>>

\* the UPDATE that sets the position of the moved task
ReorderSet(w) ==
    /\ pc[w] = "set"
    /\ tasks' = SetPosition(tasks, local[w].id, local[w].new_position)
    /\ pc' = [pc EXCEPT ![w] = "idle"]
    /\ local' = [local EXCEPT ![w] = NoLocal]
    /\ Done("reorder_task", local[w].id, local[w].old_position, local[w].new_position, "Ok")
    /\ UNCHANGED <<taskSeq, categories, catSeq, observed, treeVars>>

\* the answers SELECT * FROM tasks ORDER BY position ASC may give
SortedByPosition(tbl) ==
    {[k \in 1..Cardinality(DOMAIN tbl) |-> tbl[s[k]]] :
        s \in {q \in Perms(DOMAIN tbl) :
                 \A k \in 1..(Cardinality(DOMAIN tbl) - 1) :
                     tbl[q[k]].position <= tbl[q[k + 1]].position}}

get_all_tasks ==
    /\ \E list \in SortedByPosition(tasks) : observed' = Some(list)
    /\ UNCHANGED <<dbVars, last, pc, local, treeVars>>

\* the table a list of rows describes
ListTable(list) ==
    [id \in {list[k].id : k \in 1..Len(list)} |->
        (CHOOSE t \in Range(list) : t.id = id)]

----------------------------------------------------------------------------
(* Specification of one reorder_task, with an in-range target, against a   *)
(* reader; tasks are created while no reorder_task runs                    *)

Idle == \A w \in Workers : pc[w] = "idle"

CreateTaskRd ==
    /\ Idle
    /\ taskSeq < MaxReaderTasks
    /\ \E c \in CategoryInputs :
          create_task(CreateInput(<<"a">>, c, None), Epoch)

ReorderReadRd ==
    \E id \in IdInputs(MaxReaderTasks), new_position \in 0..(MaxReaderTasks - 1) :
        /\ id \in DOMAIN tasks => new_position < Cardinality(Siblings(tasks, id))
        /\ ReorderRead(1, id, new_position)

ReorderShiftRd == ReorderShift(1)

ReorderSetRd == ReorderSet(1)

NextRd == CreateTaskRd \/ ReorderReadRd \/ ReorderShiftRd \/ ReorderSetRd \/ get_all_tasks

SpecReader == Init /\ [][NextRd]_vars

\* C2: no answer of get_all_tasks shows a group with a duplicate position or a gap
C2_ReaderSeesDense == IsSome(observed) => Dense(ListTable(Unwrap(observed)))

----------------------------------------------------------------------------
(* Specification of the task commands and delete_category, run one after   *)
(* another                                                                 *)

UpdateInput(title, category_id, priority, parent_id, is_done, position) ==
    [title |-> title, description |-> None, category_id |-> category_id,
     priority |-> priority, parent_id |-> parent_id, is_done |-> is_done,
     position |-> position, due_date |-> None]

Supplied(input) ==
    Cardinality({f \in DOMAIN input : IsSome(input[f])})

\* the partial inputs that supply one field, or is_done and one more field
UpdateInputs ==
    {input \in {UpdateInput(title, c, pr, p, d, pos) :
                    title \in {None, Some(<<" ">>)},
                    c \in CategoryInputs,
                    pr \in {None, Some("Bogus")},
                    p \in ParentInputs(MaxCmdTasks),
                    d \in {None, Some(TRUE), Some(FALSE)},
                    pos \in {None, Some(0)}} :
        Supplied(input) <= (IF IsSome(input.is_done) THEN 2 ELSE 1)}

CreateTask ==
    /\ taskSeq < MaxCmdTasks
    /\ \E title \in TitleInputs, c \in CategoryInputs, p \in ParentInputs(MaxCmdTasks) :
          create_task(CreateInput(title, c, p), Epoch)

UpdateTask ==
    \E id \in IdInputs(MaxCmdTasks), input \in UpdateInputs :
        update_task(id, input, Epoch)

ReorderTask ==
    \E id \in IdInputs(MaxCmdTasks), new_position \in 0..MaxCmdTasks :
        reorder_task(id, new_position)

DeleteTask == \E id \in IdInputs(MaxCmdTasks) : delete_task(id)

DeleteCategory == \E id \in {1} : delete_category(id)

Next == CreateTask \/ UpdateTask \/ ReorderTask \/ DeleteTask \/ DeleteCategory

Spec == Init /\ [][Next]_vars

\* C10: every stored task has completed_at set exactly when is_done is true
C10_CompletedIffDone ==
    \A i \in DOMAIN tasks : IsSome(tasks[i].completed_at) <=> tasks[i].is_done

\* update_task has marked a task done (create_task stores is_done false), in a
\* store that also holds a task that is not done
C10_Witness ==
    /\ \E i \in DOMAIN tasks : tasks[i].is_done /\ tasks[i].completed_at = Some(Epoch)
    /\ \E i \in DOMAIN tasks : ~tasks[i].is_done /\ tasks[i].completed_at = None

----------------------------------------------------------------------------
(* build_task_tree, one build_subtree call or return per step *)

\* HashMap collect: one node per id, a later task of the list replacing an earlier one
NodesOf(list) ==
    [id \in {list[k].id : k \in 1..Len(list)} |->
        [task |-> list[SetMax({k \in 1..Len(list) : list[k].id = id})], subtasks |-> << >>]]

\* the parent -> children map, filled in the iteration order of nodes.values()
ParentMapOf(nds, order) ==
    [p \in {Unwrap(nds[i].task.parent_id) : i \in {j \in DOMAIN nds : IsSome(nds[j].task.parent_id)}} |->
        LET IsChild(i) == nds[i].task.parent_id = Some(p) IN SelectSeq(order, IsChild)]

\* RootIdsOf that also takes a task whose parent is not in the index for a root
RootIdsWithOrphans(nds, order) ==
    LET IsRoot(i) == \/ nds[i].task.parent_id = None
                     \/ Unwrap(nds[i].task.parent_id) \notin DOMAIN nds
    IN SelectSeq(order, IsRoot)

\* the ids of the tasks with no parent, in the iteration order of nodes.values()
RootIdsOf(nds, order) ==
    LET IsRoot(i) == nds[i].task.parent_id = None IN SelectSeq(order, IsRoot)

build_task_tree(list) ==
    /\ tpc = "idle"
    /\ \E order \in Perms(DOMAIN NodesOf(list)) :
          /\ torder' = order
          /\ nodes' = NodesOf(list)
          /\ parent_map' = ParentMapOf(NodesOf(list), order)
          /\ root_ids' = RootIdsOf(NodesOf(list), order)
    /\ tinput' = list
    /\ stack' = << >>
    /\ forest' = << >>
    /\ tpc' = "run"
    /\ UNCHANGED <<dbVars, last, procVars>>

\* AdvanceFrame that leaves the iterator where it is
StuckFrame(stk) == stk

\* the iterator of the calling frame moves to the next child id
AdvanceFrame(stk) == [stk EXCEPT ![Len(stk)].child_ids = Tail(@)]

\* Attach that pushes onto the outermost frame instead of the calling one
AttachToOutermost(stk, child_tree) == [stk EXCEPT ![1].node.subtasks = Append(@, child_tree)]

\* node.subtasks.push(child_tree) in the calling frame
Attach(stk, child_tree) == [stk EXCEPT ![Len(stk)].node.subtasks = Append(@, child_tree)]

\* build_subtree(task_id) is entered with the frames callers below it: the node
\* leaves the working index, or the call returns None at once
EnterSubtree(task_id, callers) ==
    IF task_id \in DOMAIN nodes
    THEN /\ nodes' = RemoveKey(nodes, task_id)
         /\ stack' = Append(callers,
                        [node |-> nodes[task_id],
                         child_ids |-> IF task_id \in DOMAIN parent_map
                                       THEN parent_map[task_id] ELSE << >>])
    ELSE /\ nodes' = nodes
         /\ stack' = callers

\* root_ids.into_iter().filter_map(build_subtree): the next root
BuildRoot ==
    /\ tpc = "run"
    /\ stack = << >>
    /\ root_ids # << >>
    /\ root_ids' = Tail(root_ids)
    /\ EnterSubtree(Head(root_ids), << >>)
    /\ UNCHANGED <<dbVars, last, procVars, tpc, tinput, torder, parent_map, forest>>

\* for child_id in child_ids: the recursive call
BuildChild ==
    /\ tpc = "run"
    /\ stack # << >>
    /\ stack[Len(stack)].child_ids # << >>
    /\ EnterSubtree(Head(stack[Len(stack)].child_ids), AdvanceFrame(stack))
    /\ UNCHANGED <<dbVars, last, procVars, tpc, tinput, torder, parent_map, root_ids, forest>>

\* Some(node): the finished subtree goes to the caller, or to the result
ReturnSubtree ==
    /\ tpc = "run"
    /\ stack # << >>
    /\ stack[Len(stack)].child_ids = << >>
    /\ LET node == stack[Len(stack)].node
           callers == SubSeq(stack, 1, Len(stack) - 1)
       IN IF callers = << >>
          THEN /\ forest' = Append(forest, node)
               /\ stack' = << >>
          ELSE /\ stack' = Attach(callers, node)
               /\ forest' = forest
    /\ UNCHANGED <<dbVars, last, procVars, tpc, tinput, torder, nodes, parent_map, root_ids>>

\* collect() has consumed every root
BuildDone ==
    /\ tpc = "run"
    /\ stack = << >>
    /\ root_ids = << >>
    /\ tpc' = "done"
    /\ UNCHANGED <<dbVars, last, procVars, tinput, torder, nodes, parent_map, root_ids, stack, forest>>

----------------------------------------------------------------------------
(* Specification of build_task_tree on every list of at most MaxTreeTasks  *)
(* tasks with ids 1..n in list order, each parent absent, in the list, or  *)
(* not in the list                                                         *)

\* create_test_task, with the position the list order gives
TreeTask(id, parent_id, position) ==
    [id |-> id, title |-> <<"t">>, description |-> None, category_id |-> None,
     priority |-> "Medium", parent_id |-> parent_id, is_done |-> FALSE,
     position |-> position, due_date |-> None, created_at |-> 0, updated_at |-> 0,
     completed_at |-> None]

TreeInputs ==
    UNION {{[k \in 1..n |-> TreeTask(k, f[k], k - 1)] :
                f \in [1..n -> {None} \cup {Some(i) : i \in 1..(MaxTreeTasks + 1)}]} :
           n \in 0..MaxTreeTasks}

TreeInit ==
    /\ DbInit
    /\ last = Unrecorded
    /\ ProcIdle
    /\ tpc = "idle"
    /\ tinput \in TreeInputs
    /\ torder = << >>
    /\ nodes = << >>
    /\ parent_map = << >>
    /\ root_ids = << >>
    /\ stack = << >>
    /\ forest = << >>

BuildStart == build_task_tree(tinput)

TreeNext == BuildStart \/ BuildRoot \/ BuildChild \/ ReturnSubtree \/ BuildDone

SpecTree == TreeInit /\ [][TreeNext]_vars

\* build_task_tree is a synchronous function: once called it keeps taking steps
SpecTreeFair == TreeInit /\ [][TreeNext]_vars /\ WF_vars(TreeNext)

----------------------------------------------------------------------------
(* The forest build_task_tree returns *)

RECURSIVE TreeIds(_), ForestIds(_)
\* the ids of a tree, the root first
TreeIds(t) == <<t.task.id>> \o ForestIds(t.subtasks)

\* the ids of all the nodes of a list of trees
ForestIds(f) == IF f = << >> THEN << >> ELSE TreeIds(Head(f)) \o ForestIds(Tail(f))

RECURSIVE Depth(_)
\* the number of nodes on the longest path down from the roots of f
Depth(f) ==
    IF f = << >> THEN 0
    ELSE LET d == {1 + Depth(f[k].subtasks) : k \in 1..Len(f)} IN SetMax(d)

RECURSIVE WellParented(_)
\* every subtask, at any depth, sits under the node its parent_id names
WellParented(t) ==
    \A k \in 1..Len(t.subtasks) :
        /\ t.subtasks[k].task.parent_id = Some(t.task.id)
        /\ WellParented(t.subtasks[k])

RECURSIVE InInputOrder(_)
\* the subtasks of every node, at any depth, come in the order of the input list
\* (in TreeInputs the k-th task of the list has id k and position k - 1)
InInputOrder(t) ==
    /\ \A j, k \in 1..Len(t.subtasks) :
          j < k => /\ t.subtasks[j].task.id < t.subtasks[k].task.id
                   /\ t.subtasks[j].task.position <= t.subtasks[k].task.position
    /\ \A k \in 1..Len(t.subtasks) : InInputOrder(t.subtasks[k])

InputIds == {tinput[k].id : k \in 1..Len(tinput)}

RootSet == {forest[k].task.id : k \in 1..Len(forest)}

Parentless == {tinput[k].id : k \in {j \in 1..Len(tinput) : tinput[j].parent_id = None}}

\* the tasks whose parent_id is set and names no task of the input
Orphans ==
    {tinput[k].id : k \in {j \in 1..Len(tinput) :
        IsSome(tinput[j].parent_id) /\ Unwrap(tinput[j].parent_id) \notin InputIds}}

RECURSIVE OnCycleFrom(_, _, _)
\* following parent_id from task id for at most n more steps comes back to task start
OnCycleFrom(start, id, n) ==
    /\ n > 0
    /\ IsSome(tinput[id].parent_id)
    /\ Unwrap(tinput[id].parent_id) \in InputIds
    /\ \/ Unwrap(tinput[id].parent_id) = start
       \/ OnCycleFrom(start, Unwrap(tinput[id].parent_id), n - 1)

\* the tasks that are among their own ancestors (list index = id in TreeInputs)
Cyclic == {id \in InputIds : OnCycleFrom(id, id, Len(tinput))}

\* C4: the forest has as many nodes as the input has tasks, and every node is
\* at most input-length steps below a root
C4_NodeCount ==
    tpc = "done" =>
        /\ Len(ForestIds(forest)) = Len(tinput)
        /\ Depth(forest) <= Len(tinput)

\* C5: a task whose parent_id names no task of the input is a root of the forest
C5_OrphanIsRoot == tpc = "done" => Orphans \subseteq RootSet

C7_NoDuplicate ==
    tpc = "done" =>
        /\ Cardinality(Range(ForestIds(forest))) = Len(ForestIds(forest))
        /\ \A k \in 1..Len(forest) : WellParented(forest[k])

C7_Witness ==
    /\ tpc = "done"
    /\ Cyclic # {}
    /\ Depth(forest) = 2

\* C8: the subtasks of every node are in the order of the (position-ordered) input
C8_SubtasksInInputOrder ==
    tpc = "done" => \A k \in 1..Len(forest) : InInputOrder(forest[k])

\* C9: build_task_tree returns
C9_Terminates == <>(tpc = "done")

C9_Witness ==
    /\ tpc = "done"
    /\ Cardinality(Cyclic) = 2
    /\ forest # << >>

----------------------------------------------------------------------------
(* Specification of create_task, update_task of the parent, and            *)
(* delete_task, with the history recorded: task hierarchies of any shape   *)

MaxCascadeTasks == 4

AnyParent(max) == {None} \cup {Some(i) : i \in 1..max}

CreateTaskCD ==
    /\ taskSeq < MaxCascadeTasks
    /\ \E parent_id \in AnyParent(MaxCascadeTasks) :
           create_task(CreateInput(<<"a">>, None, parent_id), Epoch)

\* the oldest task is moved under any task, which closes parent_id cycles
UpdateTaskCD ==
    \E id \in {1} \cap DOMAIN tasks, parent_id \in AnyParent(MaxCascadeTasks) :
        update_task(id, UpdateInput(None, None, None, parent_id, None, None), Epoch)

DeleteTaskCD == \E id \in IdInputs(MaxCascadeTasks) : delete_task(id)

NextCD == CreateTaskCD \/ UpdateTaskCD \/ DeleteTaskCD

SpecCascade == InitRecorded /\ [][NextCD]_vars

\* the ids met by following parent_id from task i, at most n links
RECURSIVE AncestorsOf(_, _, _)
AncestorsOf(tbl, i, n) ==
    IF n = 0 \/ ~IsSome(tbl[i].parent_id) \/ Unwrap(tbl[i].parent_id) \notin DOMAIN tbl
    THEN {}
    ELSE {Unwrap(tbl[i].parent_id)} \cup AncestorsOf(tbl, Unwrap(tbl[i].parent_id), n - 1)

Descendants(tbl, id) ==
    {j \in DOMAIN tbl : id \in AncestorsOf(tbl, j, Cardinality(DOMAIN tbl))}

\* C11: delete_task(id) on an existing task removes exactly that task and the
\* tasks that reach it through parent_id links, leaves every other row as it
\* was, and no list get_all_tasks returns afterwards holds a removed task
C11_Step ==
    (last'.op = "delete_task" /\ last'.id \in DOMAIN tasks) =>
        LET gone == {last'.id} \cup Descendants(tasks, last'.id) IN
        /\ last'.result = "Ok"
        /\ DOMAIN tasks' = DOMAIN tasks \ gone
        /\ \A i \in DOMAIN tasks' : tasks'[i] = tasks[i]
        /\ \A list \in SortedByPosition(tasks') :
               \A k \in 1..Len(list) : list[k].id \notin gone

C11_DeleteCascades == [][C11_Step]_vars

\* a delete_task has removed a task with its child and its grandchild, and a
\* task outside that subtree is still stored
C11_Witness ==
    /\ last.op = "delete_task"
    /\ last.old - last.new >= 3
    /\ tasks # << >>

----------------------------------------------------------------------------
(* Specification of the category commands and run_migrations on a store     *)
(* with tasks in categories, with the history recorded; categories are      *)
(* created at the time of the first start and updated one second later      *)

MaxCatTasks == 2
MaxNewCategories == 1

\* the categories the commands name: a seeded one, the seeded "Work", the first
\* created one, and an id no row ever has
NamedCategories ==
    {1, Len(DefaultCategories) - 1, Len(DefaultCategories) + 1,
     Len(DefaultCategories) + MaxNewCategories + 1}

CategoryIdInputs == {None} \cup {Some(c) : c \in NamedCategories}

CreateTaskCat ==
    /\ taskSeq < MaxCatTasks
    /\ \E category_id \in CategoryIdInputs :
           create_task(CreateInput(<<"a">>, category_id, None), Epoch)

CategoryNames == {"Work", "Home"}
CategoryColors == {"#000000"}

CreateCategoryInput(name, color) == [name |-> name, color |-> color]

UpdateCategoryInput(name, color) == [name |-> name, color |-> color]

UpdateCategoryInputs ==
    {UpdateCategoryInput(name, color) :
        name \in {None} \cup {Some(n) : n \in CategoryNames},
        color \in {None} \cup {Some(c) : c \in CategoryColors}}

CreateCategoryCat ==
    /\ catSeq < Len(DefaultCategories) + MaxNewCategories
    /\ \E name \in CategoryNames, color \in CategoryColors :
           create_category(CreateCategoryInput(name, color), Epoch)

UpdateCategoryCat ==
    \E id \in NamedCategories, input \in UpdateCategoryInputs :
        update_category(id, input, Epoch + 1)

DeleteCategoryCat == \E id \in NamedCategories : delete_category(id)

DeleteTaskCat == \E id \in IdInputs(MaxCatTasks) : delete_task(id)

\* a later start of the application on the same store
RunMigrationsCat == run_migrations(Epoch + 1)

NextCat ==
    \/ CreateTaskCat
    \/ CreateCategoryCat
    \/ UpdateCategoryCat
    \/ DeleteCategoryCat
    \/ DeleteTaskCat
    \/ RunMigrationsCat

SpecCategories == InitRecorded /\ [][NextCat]_vars

TaskFields ==
    {"id", "title", "description", "category_id", "priority", "parent_id", "is_done",
     "position", "due_date", "created_at", "updated_at", "completed_at"}

\* C12: delete_category(id) deletes no task: a task that was in category id is
\* still stored with category_id null and every other field as before, and
\* every other task is unchanged
C12_Step ==
    last'.op = "delete_category" =>
        /\ last'.result = "Ok"
        /\ DOMAIN tasks' = DOMAIN tasks
        /\ \A i \in DOMAIN tasks :
              /\ \A f \in TaskFields \ {"category_id"} : tasks'[i][f] = tasks[i][f]
              /\ tasks'[i].category_id =
                    IF tasks[i].category_id = Some(last'.id) THEN None
                    ELSE tasks[i].category_id

C12_DeleteCategoryKeepsTasks == [][C12_Step]_vars

\* a delete_category has taken the category from a task, next to a task of
\* another category
C12_Witness ==
    /\ last.op = "delete_category"
    /\ last.old >= 1
    /\ \E i, j \in DOMAIN tasks :
          /\ tasks[i].category_id = None
          /\ IsSome(tasks[j].category_id)

----------------------------------------------------------------------------
(* Specification of create_task and update_task of the title, over titles   *)
(* at the limits of validate_task_title, with the history recorded          *)

MaxTitleTasks == 2

\* the String of n characters c
Repeat(n, c) == [i \in 1..n |-> c]

LimitTitles ==
    { << >>,
      <<" ", " ", " ">>,
      <<"a">>,
      <<" ", "a", " ">>,
      Repeat(MaxTitleLen, "a"),
      Repeat(MaxTitleLen + 1, "a"),
      <<" ">> \o Repeat(MaxTitleLen, "a") \o <<" ">>,
      Repeat(MaxTitleLen \div 2, "ee"),
      Repeat(MaxTitleLen \div 2 + 1, "ee") }

CreateTaskTi ==
    /\ taskSeq < MaxTitleTasks
    /\ \E title \in LimitTitles : create_task(CreateInput(title, None, None), Epoch)

UpdateTaskTi ==
    \E id \in IdInputs(MaxTitleTasks), title \in LimitTitles :
        update_task(id, UpdateInput(Some(title), None, None, None, None, None), Epoch)

NextTi == CreateTaskTi \/ UpdateTaskTi

SpecTitles == InitRecorded /\ [][NextTi]_vars

\* the trimmed title is empty or longer than 500 characters
RejectedTitle(title) ==
    Trim(title) = << >> \/ Len(Trim(title)) > MaxTitleLen

\* C13: create_task, and update_task when a title is supplied, return
\* ValidationError exactly when the trimmed title is empty or longer than 500
\* characters, and then leave the task table unchanged
C13_Step ==
    \A title \in LimitTitles :
        /\ create_task(CreateInput(title, None, None), Epoch) =>
              /\ (last'.result = "ValidationError") <=> RejectedTitle(title)
              /\ last'.result = "ValidationError" => tasks' = tasks
        /\ \A id \in IdInputs(MaxTitleTasks) :
              update_task(id, UpdateInput(Some(title), None, None, None, None, None), Epoch) =>
                  /\ (last'.result = "ValidationError") <=> RejectedTitle(title)
                  /\ last'.result = "ValidationError" => tasks' = tasks

C13_ValidationExact == [][C13_Step]_vars

\* C14: every title stored through create_task or update_task has no leading
\* and no trailing whitespace
C14_StoredTrimmed ==
    \A i \in DOMAIN tasks : Trim(tasks[i].title) = tasks[i].title

----------------------------------------------------------------------------
(* Specification of create_task and delete_task, with the history          *)
(* recorded: groups whose positions have gaps                               *)

MaxPosTasks == 4

CreateTaskPos ==
    /\ taskSeq < MaxPosTasks
    /\ \E parent_id \in ParentInputs(MaxPosTasks), category_id \in CategoryInputs :
           create_task(CreateInput(<<"a">>, category_id, parent_id), Epoch)

DeleteTaskPos == \E id \in IdInputs(MaxPosTasks) : delete_task(id)

NextPos == CreateTaskPos \/ DeleteTaskPos

SpecPositions == InitRecorded /\ [][NextPos]_vars

\* C15: a successful create_task stores the new task at 1 + the largest
\* position among the stored tasks with the same parent_id and category_id
\* (an absent value matching only an absent one), at 0 when there is none, and
\* changes no stored task
C15_Step ==
    (last'.op = "create_task" /\ last'.result = "Ok") =>
        LET id == last'.id
            t == tasks'[id]
            G == {i \in DOMAIN tasks : /\ tasks[i].parent_id = t.parent_id
                                       /\ tasks[i].category_id = t.category_id}
        IN /\ id \notin DOMAIN tasks
           /\ DOMAIN tasks' = DOMAIN tasks \cup {id}
           /\ \A i \in DOMAIN tasks : tasks'[i] = tasks[i]
           /\ G = {} => t.position = 0
           /\ G # {} => /\ \E i \in G : t.position = tasks[i].position + 1
                        /\ \A i \in G : t.position > tasks[i].position

C15_CreateAppends == [][C15_Step]_vars

\* the third create_task in one group: the group holds positions 0, 1, 2, next
\* to a task of another group
C15_Witness ==
    /\ last.op = "create_task"
    /\ last.result = "Ok"
    /\ tasks[last.id].position = 2
    /\ {tasks[i].position : i \in Siblings(tasks, last.id)} = {0, 1, 2}
    /\ tasks[last.id].parent_id = None
    /\ tasks[last.id].category_id = None
    /\ DOMAIN tasks # Siblings(tasks, last.id)

----------------------------------------------------------------------------
(* Specification of create_task and reorder_task to any position, with the  *)
(* history recorded                                                         *)

MaxMoveTasks == 2

CreateTaskMv ==
    /\ taskSeq < MaxMoveTasks
    /\ \E parent_id \in ParentInputs(MaxMoveTasks) :
           create_task(CreateInput(<<"a">>, None, parent_id), Epoch)

ReorderTaskMv ==
    \E id \in IdInputs(MaxMoveTasks), new_position \in -1..MaxMoveTasks :
        reorder_task(id, new_position)

NextMv == CreateTaskMv \/ ReorderTaskMv

SpecMoves == InitRecorded /\ [][NextMv]_vars

\* C16: reorder_task(id, new_position) on a stored task whose position is
\* new_position returns success and leaves the position of every task unchanged
C16_Step ==
    (/\ last'.op = "reorder_task"
     /\ last'.id \in DOMAIN tasks
     /\ tasks[last'.id].position = last'.new) =>
        /\ last'.result = "Ok"
        /\ DOMAIN tasks' = DOMAIN tasks
        /\ \A i \in DOMAIN tasks : tasks'[i].position = tasks[i].position

C16_SamePositionNoOp == [][C16_Step]_vars

\* a reorder_task to the position the task is at has run, on a task with
\* siblings
C16_Witness ==
    /\ last.op = "reorder_task"
    /\ last.id \in DOMAIN tasks
    /\ last.old = last.new
    /\ last.result = "Ok"
    /\ tasks[last.id].position = last.new
    /\ Cardinality(Siblings(tasks, last.id)) >= 2


C30_Step ==
    (last'.op = "reorder_task" /\ last'.id \notin DOMAIN tasks) =>
        /\ last'.result = "NotFound"
        /\ tasks' = tasks
        /\ \A w \in Workers : pc'[w] = "idle"

\* C30: reorder_task with an id that names no stored task returns NotFound,
\* applies no shift and leaves the position of every stored task unchanged
C30_UnknownIdNotFound == [][C30_Step]_vars

\* a reorder_task naming no stored task has been refused with NotFound on a
\* store whose top-level group holds a task at the target position and more
C30_Witness ==
    /\ last.op = "reorder_task"
    /\ last.id \notin DOMAIN tasks
    /\ last.result = "NotFound"
    /\ \E i, j \in DOMAIN tasks :
          /\ i # j
          /\ tasks[i].parent_id = None /\ tasks[j].parent_id = None
          /\ tasks[i].position = last.new

----------------------------------------------------------------------------
(* Specification of update_task and update_category over every field of    *)
(* their inputs, with the history recorded; every update runs one second    *)
(* after the latest timestamp of the store                                  *)

MaxUpTasks == 2
MaxUpdates == 2

LatestStamp ==
    SetMax({tasks[i].updated_at : i \in DOMAIN tasks}
           \cup {categories[c].updated_at : c \in DOMAIN categories})

UpdateTaskInput(title, description, category_id, priority, parent_id, is_done, position, due_date) ==
    [title |-> title, description |-> description, category_id |-> category_id,
     priority |-> priority, parent_id |-> parent_id, is_done |-> is_done,
     position |-> position, due_date |-> due_date]

\* an input that supplies every field
FullUpdate ==
    UpdateTaskInput(Some(<<"c">>), Some("d"), Some(1), Some("Low"), Some(1), Some(TRUE),
                    Some(0), Some(Epoch))

\* the partial inputs that supply no field or one field, and the full input
UpdateTaskInputs ==
    {FullUpdate} \cup
    {input \in {UpdateTaskInput(title, de, c, pr, p, d, pos, due) :
                    title \in {None, Some(<<" ", "b", " ">>), Some(<<" ">>)},
                    de \in {None, Some("d")},
                    c \in {None, Some(1), Some(Len(DefaultCategories) + 1)},
                    pr \in {None, Some("High"), Some("Bogus")},
                    p \in ParentInputs(MaxUpTasks),
                    d \in {None, Some(TRUE), Some(FALSE)},
                    pos \in {None, Some(MaxUpTasks)},
                    due \in {None, Some(Epoch)}} :
        Supplied(input) <= 1}

CreateTaskUp ==
    /\ taskSeq < MaxUpTasks
    /\ create_task(CreateInput(<<"a">>, None, None), Epoch)

UpdateTaskUp ==
    /\ LatestStamp < Epoch + MaxUpdates
    /\ \E id \in IdInputs(MaxUpTasks), input \in UpdateTaskInputs :
           update_task(id, input, LatestStamp + 1)

UpdateCategoryUp ==
    /\ LatestStamp < Epoch + MaxUpdates
    /\ \E id \in {1, Len(DefaultCategories) + 1}, input \in UpdateCategoryInputs :
           update_category(id, input, LatestStamp + 1)

NextUp == CreateTaskUp \/ UpdateTaskUp \/ UpdateCategoryUp

SpecUpdates == InitRecorded /\ [][NextUp]_vars

\* C17 as stated: update_task and update_category called with an id that names
\* no stored row return NotFound and create, change or delete no row
C17_OriginalStep ==
    (\/ last'.op = "update_task" /\ last'.id \notin DOMAIN tasks
     \/ last'.op = "update_category" /\ last'.id \notin DOMAIN categories) =>
        /\ last'.result = "NotFound"
        /\ UNCHANGED dbVars

C17_Original == [][C17_OriginalStep]_vars

\* C17, amended: update_task called with an id that names no stored row
\* returns ValidationError when it supplies a title that validate_task_title
\* rejects, and NotFound otherwise; update_category called with such an id
\* returns NotFound; in each case no row is created, changed or deleted
C17_Step ==
    /\ \A id \in IdInputs(MaxUpTasks) \ DOMAIN tasks, input \in UpdateTaskInputs :
          (/\ last'.op = "update_task"
           /\ last'.id = id
           /\ update_task(id, input, LatestStamp + 1)) =>
              /\ last'.result =
                    IF IsSome(input.title) /\ validate_task_title(Unwrap(input.title)) # "Ok"
                    THEN "ValidationError" ELSE "NotFound"
              /\ UNCHANGED dbVars
    /\ (last'.op = "update_category" /\ last'.id \notin DOMAIN categories) =>
          /\ last'.result = "NotFound"
          /\ UNCHANGED dbVars

C17_MissingIdUpdates == [][C17_Step]_vars

\* an update_task on an id that names no row has returned NotFound on a store
\* that holds a task
C17_Witness ==
    /\ last.op = "update_task"
    /\ last.id \notin DOMAIN tasks
    /\ last.result = "NotFound"
    /\ tasks # << >>

----------------------------------------------------------------------------
\* C18: delete_task and delete_category called with an id that names no
\* stored row return success and leave every task and every category unchanged
C18_Step ==
    (\/ last'.op = "delete_task" /\ last'.id \notin DOMAIN tasks
     \/ last'.op = "delete_category" /\ last'.id \notin DOMAIN categories) =>
        /\ last'.result = "Ok"
        /\ tasks' = tasks
        /\ categories' = categories

C18_DeleteMissingIsNoOp == [][C18_Step]_vars

\* a delete_task on an id that names no row has run on a store that holds a
\* task: the table counts as many rows as before
C18_Witness ==
    /\ last.op = "delete_task"
    /\ last.id \notin DOMAIN tasks
    /\ last.old = last.new
    /\ last.result = "Ok"
    /\ tasks # << >>

----------------------------------------------------------------------------
\* C19: a successful update_task(id, partial) changes only the task id, and
\* on it only the fields partial supplies, updated_at (set to the time of the
\* call) and, when is_done is supplied, completed_at; a successful
\* update_category changes only the supplied name and color and updated_at of
\* the one category
C19_Step ==
    /\ \A id \in DOMAIN tasks, input \in UpdateTaskInputs :
          (/\ last'.op = "update_task"
           /\ last'.id = id
           /\ last'.result = "Ok"
           /\ update_task(id, input, LatestStamp + 1)) =>
              /\ DOMAIN tasks' = DOMAIN tasks
              /\ \A j \in DOMAIN tasks \ {id} : tasks'[j] = tasks[j]
              /\ \A f \in DOMAIN input : ~IsSome(input[f]) => tasks'[id][f] = tasks[id][f]
              /\ tasks'[id].id = id
              /\ tasks'[id].created_at = tasks[id].created_at
              /\ tasks'[id].updated_at = LatestStamp + 1
              /\ ~IsSome(input.is_done) => tasks'[id].completed_at = tasks[id].completed_at
              /\ UNCHANGED <<taskSeq, categories, catSeq>>
    /\ \A id \in DOMAIN categories, input \in UpdateCategoryInputs :
          (/\ last'.op = "update_category"
           /\ last'.id = id
           /\ last'.result = "Ok"
           /\ update_category(id, input, LatestStamp + 1)) =>
              /\ DOMAIN categories' = DOMAIN categories
              /\ \A c \in DOMAIN categories \ {id} : categories'[c] = categories[c]
              /\ \A f \in DOMAIN input :
                    ~IsSome(input[f]) => categories'[id][f] = categories[id][f]
              /\ categories'[id].id = id
              /\ categories'[id].created_at = categories[id].created_at
              /\ categories'[id].updated_at = LatestStamp + 1
              /\ UNCHANGED <<tasks, taskSeq, catSeq>>

C19_UpdateChangesSuppliedOnly == [][C19_Step]_vars

\* the second update_task of a task has supplied is_done only: the description
\* that the first one stored is kept, next to a task no update has touched
C19_Witness ==
    /\ last.op = "update_task"
    /\ last.result = "Ok"
    /\ last.id \in DOMAIN tasks
    /\ tasks[last.id].updated_at = Epoch + 2
    /\ tasks[last.id].description = Some("d")
    /\ tasks[last.id].is_done
    /\ tasks[last.id].title = <<"a">>
    /\ \E j \in DOMAIN tasks : tasks[j].updated_at = Epoch

----------------------------------------------------------------------------
\* C20: run_migrations on a store on which it has run before, with any tasks
\* and at least one category stored, succeeds and leaves every category row
\* and every task row unchanged
C20_Step ==
    (last'.op = "run_migrations" /\ DOMAIN categories # {}) =>
        /\ last'.result = "Ok"
        /\ tasks' = tasks
        /\ categories' = categories

C20_MigrationsIdempotent == [][C20_Step]_vars

\* run_migrations has run again on a store with a task in a category, after
\* the first seeded category was deleted and the name Work was given up:
\* neither came back
C20_Witness ==
    /\ last.op = "run_migrations"
    /\ last.result = "Ok"
    /\ \E i \in DOMAIN tasks : IsSome(tasks[i].category_id)
    /\ 1 \notin DOMAIN categories
    /\ \A c \in DOMAIN categories : categories[c].name # "Work"
    /\ catSeq = Len(DefaultCategories)

----------------------------------------------------------------------------
(* Specification of later starts of the application between                 *)
(* create_category and delete_category calls that may empty the            *)
(* categories table, with the history recorded                              *)

MaxReseeds == 1

\* the ids the AUTOINCREMENT sequence of categories may reach
SeedingRoom == catSeq < Len(DefaultCategories) * (1 + MaxReseeds)

CreateCategorySd ==
    /\ SeedingRoom
    /\ \E name \in CategoryNames, color \in CategoryColors :
           create_category(CreateCategoryInput(name, color), Epoch)

DeleteCategorySd == \E id \in 1..(catSeq + 1) : delete_category(id)

RunMigrationsSd ==
    /\ SeedingRoom
    /\ run_migrations(Epoch + 1)

NextSd == CreateCategorySd \/ DeleteCategorySd \/ RunMigrationsSd

SpecSeeding == InitRecorded /\ [][NextSd]_vars

\* C21: every run of run_migrations after the first inserts no category
C21_Step ==
    last'.op = "run_migrations" => DOMAIN categories' \subseteq DOMAIN categories

C21_SeedsOnlyOnce == [][C21_Step]_vars

----------------------------------------------------------------------------
\* C22: delete_task preserves the dense positions: if every group's positions
\* are 0..k-1 before a delete_task, they are after it
C22_Step ==
    (last'.op = "delete_task" /\ Dense(tasks)) => Dense(tasks')

C22_DeleteKeepsDense == [][C22_Step]_vars

----------------------------------------------------------------------------
(* Specification of update_task of the position, the parent or the         *)
(* category, and of delete_category, with the history recorded              *)

MaxRegroupTasks == 2

\* the partial inputs that supply one of position, parent_id, category_id
RegroupInputs ==
    {input \in {UpdateInput(None, c, None, p, None, pos) :
                    c \in CategoryInputs, p \in ParentInputs(MaxRegroupTasks),
                    pos \in {None, Some(0), Some(MaxRegroupTasks)}} :
        Supplied(input) = 1}

CreateTaskRg ==
    /\ taskSeq < MaxRegroupTasks
    /\ \E category_id \in CategoryInputs, parent_id \in ParentInputs(MaxRegroupTasks) :
           create_task(CreateInput(<<"a">>, category_id, parent_id), Epoch)

UpdateTaskRg ==
    \E id \in IdInputs(MaxRegroupTasks), input \in RegroupInputs :
        update_task(id, input, Epoch)

DeleteCategoryRg == \E id \in {1} : delete_category(id)

NextRg == CreateTaskRg \/ UpdateTaskRg \/ DeleteCategoryRg

SpecRegroup == InitRecorded /\ [][NextRg]_vars

\* C23: update_task that supplies position, parent_id or category_id, and
\* delete_category, preserve the dense positions: if every group's positions
\* are 0..k-1 before the call, they are after it
C23_Step ==
    (/\ \/ last'.op = "update_task" /\ last'.result = "Ok"
        \/ last'.op = "delete_category"
     /\ Dense(tasks)) => Dense(tasks')

C23_RegroupKeepsDense == [][C23_Step]_vars

----------------------------------------------------------------------------
(* Specification of the category commands alone, with the history recorded *)

NextNm == CreateCategoryCat \/ UpdateCategoryCat \/ DeleteCategoryCat

SpecNames == InitRecorded /\ [][NextNm]_vars

NamesDistinct ==
    Cardinality({categories[c].name : c \in DOMAIN categories})
        = Cardinality(DOMAIN categories)

NameTaken(name, except) ==
    \E c \in DOMAIN categories \ except : categories[c].name = name

C24_Step ==
    /\ last'.op = "create_category" =>
          \A name \in CategoryNames, color \in CategoryColors :
              create_category(CreateCategoryInput(name, color), Epoch) =>
                  IF NameTaken(name, {})
                  THEN last'.result = "DatabaseError" /\ categories' = categories
                  ELSE last'.result = "Ok"
    /\ (last'.op = "update_category" /\ last'.id \in DOMAIN categories) =>
          \A input \in UpdateCategoryInputs :
              update_category(last'.id, input, Epoch + 1) =>
                  IF IsSome(input.name) /\ NameTaken(Unwrap(input.name), {last'.id})
                  THEN last'.result = "DatabaseError" /\ categories' = categories
                  ELSE last'.result = "Ok"

\* C24: in every reachable state no two categories have the same name; a
\* create_category, or an update_category that supplies a name, that would
\* give two categories the same name fails with DatabaseError and leaves the
\* categories table unchanged
C24_UniqueNames == NamesDistinct /\ [][NamesDistinct' /\ C24_Step]_vars

\* a create_category with the name of a stored category has failed
C24_Witness ==
    /\ last.op = "create_category"
    /\ last.result = "DatabaseError"
    /\ NameTaken("Work", {}) /\ NameTaken("Home", {})

----------------------------------------------------------------------------
(* Specification of create_task and update_task with good and bad titles   *)
(* and priorities, and of delete_task, with the history recorded           *)

MaxPrTasks == 2

CreateTaskInput(title, description, category_id, priority, parent_id, due_date) ==
    [title |-> title, description |-> description, category_id |-> category_id,
     priority |-> priority, parent_id |-> parent_id, due_date |-> due_date]

CreateInputsPr ==
    {CreateTaskInput(title, None, None, pr, None, None) :
        title \in {<<"a">>, <<" ">>},
        pr \in {"Medium", "urgent", "Bogus"}}

UpdateInputsPr ==
    {UpdateInput(title, None, pr, None, None, None) :
        title \in {None, Some(<<" ">>)},
        pr \in {None, Some("High"), Some("Bogus")}}

CreateTaskPr ==
    /\ taskSeq < MaxPrTasks
    /\ \E input \in CreateInputsPr : create_task(input, Epoch)

UpdateTaskPr ==
    \E id \in IdInputs(MaxPrTasks), input \in UpdateInputsPr : update_task(id, input, Epoch)

DeleteTaskPr == \E id \in IdInputs(MaxPrTasks) : delete_task(id)

NextPr == CreateTaskPr \/ UpdateTaskPr \/ DeleteTaskPr

SpecPriority == InitRecorded /\ [][NextPr]_vars

PriorityValues == {"Urgent", "High", "Medium", "Low"}

PrioritiesValid == \A i \in DOMAIN tasks : tasks[i].priority \in PriorityValues

\* C25 as stated: a create_task or update_task carrying a priority other than
\* Urgent, High, Medium, Low fails with DatabaseError and changes no task
C25_OriginalStep ==
    /\ last'.op = "create_task" =>
          \A input \in CreateInputsPr :
              (input.priority \notin PriorityValues /\ create_task(input, Epoch)) =>
                  last'.result = "DatabaseError" /\ tasks' = tasks
    /\ last'.op = "update_task" =>
          \A input \in UpdateInputsPr :
              (/\ IsSome(input.priority)
               /\ Unwrap(input.priority) \notin PriorityValues
               /\ update_task(last'.id, input, Epoch)) =>
                  last'.result = "DatabaseError" /\ tasks' = tasks

C25_Original == [][C25_OriginalStep]_vars

\* the error of a command whose row the store refuses
RefusedAs(title, missing) ==
    IF IsSome(title) /\ validate_task_title(Unwrap(title)) # "Ok" THEN "ValidationError"
    ELSE IF missing THEN "NotFound"
    ELSE "DatabaseError"

C25_Step ==
    /\ PrioritiesValid'
    /\ last'.op = "create_task" =>
          \A input \in CreateInputsPr :
              (input.priority \notin PriorityValues /\ create_task(input, Epoch)) =>
                  /\ last'.result = RefusedAs(Some(input.title), FALSE)
                  /\ tasks' = tasks
    /\ last'.op = "update_task" =>
          \A input \in UpdateInputsPr :
              (/\ IsSome(input.priority)
               /\ Unwrap(input.priority) \notin PriorityValues
               /\ update_task(last'.id, input, Epoch)) =>
                  /\ last'.result = RefusedAs(input.title, last'.id \notin DOMAIN tasks)
                  /\ tasks' = tasks

\* C25, amended: in every reachable state the priority of every stored task
\* is one of Urgent, High, Medium, Low; a create_task or update_task carrying
\* any other priority stores or changes no task and fails, with
\* ValidationError when its title is rejected, else with NotFound when
\* update_task's id names no stored task, else with DatabaseError
C25_PriorityChecked == PrioritiesValid /\ [][C25_Step]_vars

\* a create_task with a valid title and the priority "urgent" has been
\* refused with DatabaseError on a store that holds a task
C25_Witness ==
    /\ last.op = "create_task"
    /\ last.result = "DatabaseError"
    /\ \E i \in DOMAIN tasks : tasks[i].priority = "High"

----------------------------------------------------------------------------
(* Specification of create_task statement by statement, run by two workers  *)
(* at once: the position lookup and the INSERT are two statements on the    *)
(* pool, with no transaction around them                                    *)

MaxCcTasks == 4

\* validate_task_title and get_next_position: SELECT COALESCE(MAX(position), -1) + 1
CreateLookup(w, input) ==
    /\ pc[w] = "idle"
    /\ UNCHANGED <<dbVars, observed, treeVars>>
    /\ IF validate_task_title(input.title) # "Ok"
       THEN /\ Done("create_task", 0, 0, 0, "ValidationError")
            /\ UNCHANGED <<pc, local>>
       ELSE /\ local' = [local EXCEPT ![w] =
                            [id |-> 0, old_position |-> 0,
                             new_position |-> get_next_position(tasks, input.parent_id,
                                                                input.category_id),
                             parent_id |-> input.parent_id,
                             category_id |-> input.category_id]]
            /\ pc' = [pc EXCEPT ![w] = "insert"]
            /\ UNCHANGED last

\* INSERT INTO tasks ... RETURNING *, with the position looked up before
CreateInsert(w) ==
    /\ pc[w] = "insert"
    /\ pc' = [pc EXCEPT ![w] = "idle"]
    /\ local' = [local EXCEPT ![w] = NoLocal]
    /\ UNCHANGED <<categories, catSeq, observed, treeVars>>
    /\ LET id == taskSeq + 1
           row == InsertedTask(CreateInput(<<"a">>, local[w].category_id, local[w].parent_id),
                               id, local[w].new_position, Epoch)
           tbl == (id :> row) @@ tasks
       IN IF RowOk(tbl, categories, row)
          THEN /\ tasks' = tbl
               /\ taskSeq' = id
               /\ Done("create_task", id, 0, local[w].new_position, "Ok")
          ELSE /\ Done("create_task", 0, 0, 0, "DatabaseError")
               /\ UNCHANGED <<tasks, taskSeq>>

\* the number of create_task calls between their two statements
Inserting == Cardinality({w \in Workers : pc[w] = "insert"})

CreateLookupCc ==
    /\ taskSeq + Inserting < MaxCcTasks
    /\ \E w \in Workers, title \in TitleInputs, category_id \in CategoryInputs :
           CreateLookup(w, CreateInput(title, category_id, None))

CreateInsertCc == \E w \in Workers : CreateInsert(w)

NextCc == CreateLookupCc \/ CreateInsertCc

SpecConcurrentCreate == Init /\ [][NextCc]_vars

\* C26: create_task calls that run at once leave every group with positions
\* 0..k-1, without a duplicate, once they have completed
C26_ConcurrentCreatesDense == Idle => Dense(tasks)

----------------------------------------------------------------------------
(* Specification of reorder_task statement by statement, run by two workers *)
(* at once on tasks created while no reorder_task runs; every call starts   *)
(* in a state with dense positions and names an in-range target            *)

MaxCrTasks == 3

CreateTaskCr ==
    /\ Idle
    /\ taskSeq < MaxCrTasks
    /\ \E c \in CategoryInputs :
          create_task(CreateInput(<<"a">>, c, None), Epoch)

ReorderReadCr ==
    /\ Dense(tasks)
    /\ \E w \in Workers, id \in IdInputs(MaxCrTasks), new_position \in 0..(MaxCrTasks - 1) :
          /\ id \in DOMAIN tasks => new_position < Cardinality(Siblings(tasks, id))
          /\ ReorderRead(w, id, new_position)

ReorderShiftCr == \E w \in Workers : ReorderShift(w)

ReorderSetCr == \E w \in Workers : ReorderSet(w)

NextCr == CreateTaskCr \/ ReorderReadCr \/ ReorderShiftCr \/ ReorderSetCr

SpecConcurrentReorder == Init /\ [][NextCr]_vars

\* C27: reorder_task calls that run at once on tasks of one group, each with
\* an in-range target and started from dense positions, leave every group
\* with positions 0..k-1 once all of them have completed
C27_ConcurrentReordersDense == Idle => Dense(tasks)

----------------------------------------------------------------------------
(* Specification of get_task_tree on the stored tasks: the task commands    *)
(* and delete_category run one after another, then get_task_tree reads the  *)
(* table and builds the forest                                              *)

MaxStTasks == 2

\* SELECT * FROM tasks ORDER BY position ASC, handed to build_task_tree
get_task_tree == \E list \in SortedByPosition(tasks) : build_task_tree(list)

CreateTaskSt ==
    /\ tpc = "idle"
    /\ taskSeq < MaxStTasks
    /\ \E c \in CategoryInputs, p \in {None, Some(1)} :
          create_task(CreateInput(<<"a">>, c, p), Epoch)

UpdateTaskSt ==
    /\ tpc = "idle"
    /\ \E id \in 1..MaxStTasks, p \in 1..MaxStTasks :
          update_task(id, UpdateInput(None, None, None, Some(p), None, None), Epoch)

ReorderTaskSt ==
    /\ tpc = "idle"
    /\ \E id \in 1..MaxStTasks, new_position \in 0..(MaxStTasks - 1) :
          reorder_task(id, new_position)

DeleteTaskSt == tpc = "idle" /\ \E id \in 1..MaxStTasks : delete_task(id)

DeleteCategorySt == tpc = "idle" /\ delete_category(1)

NextSt ==
    \/ CreateTaskSt \/ UpdateTaskSt \/ ReorderTaskSt \/ DeleteTaskSt \/ DeleteCategorySt
    \/ get_task_tree \/ BuildRoot \/ BuildChild \/ ReturnSubtree \/ BuildDone

SpecStoredTree == Init /\ [][NextSt]_vars

\* the number of times id occurs in the sequence ids
Occurrences(ids, id) == Cardinality({k \in 1..Len(ids) : ids[k] = id})

\* C28: the forest get_task_tree returns holds every stored task exactly once
C28_ForestHoldsEveryTask ==
    tpc = "done" => \A id \in DOMAIN tasks : Occurrences(ForestIds(forest), id) = 1

----------------------------------------------------------------------------
(* Specification of the commands that write or remove a parent_id or a      *)
(* category_id, with valid titles, run one after another                    *)

MaxRefTasks == 2

\* no category, a stored one, and an id no category ever has
CategoryInputsRf == {None, Some(1), Some(Len(DefaultCategories) + MaxRefTasks)}

\* UpdateTaskInput with parent_id or category_id supplied, and nothing else
UpdateInputsRf ==
    {UpdateInput(None, c, None, None, None, None) : c \in CategoryInputsRf \ {None}}
        \cup {UpdateInput(None, None, None, p, None, None) :
                 p \in AnyParent(MaxRefTasks + 1) \ {None}}

CreateTaskRf ==
    /\ taskSeq < MaxRefTasks
    /\ \E c \in CategoryInputsRf, p \in AnyParent(MaxRefTasks + 1) :
          create_task(CreateInput(<<"a">>, c, p), Epoch)

UpdateTaskRf ==
    \E id \in 1..MaxRefTasks, input \in UpdateInputsRf : update_task(id, input, Epoch)

DeleteTaskRf == \E id \in 1..MaxRefTasks : delete_task(id)

DeleteCategoryRf == delete_category(1)

NextRf == CreateTaskRf \/ UpdateTaskRf \/ DeleteTaskRf \/ DeleteCategoryRf

SpecReferences == InitRecorded /\ [][NextRf]_vars

\* every parent_id names a stored task and every category_id a stored category
ReferencesHold ==
    \A i \in DOMAIN tasks :
        /\ IsSome(tasks[i].parent_id) => Unwrap(tasks[i].parent_id) \in DOMAIN tasks
        /\ IsSome(tasks[i].category_id) => Unwrap(tasks[i].category_id) \in DOMAIN categories

\* the input names a parent that is not stored or a category that is not stored
NamesMissing(input) ==
    \/ IsSome(input.parent_id) /\ Unwrap(input.parent_id) \notin DOMAIN tasks
    \/ IsSome(input.category_id) /\ Unwrap(input.category_id) \notin DOMAIN categories

C29_Step ==
    /\ last'.op = "create_task" =>
          \A c \in CategoryInputsRf, p \in AnyParent(MaxRefTasks + 1) :
              (/\ NamesMissing(CreateInput(<<"a">>, c, p))
               /\ create_task(CreateInput(<<"a">>, c, p), Epoch)) =>
                  /\ last'.result = "DatabaseError"
                  /\ tasks' = tasks
    /\ last'.op = "update_task" =>
          \A input \in UpdateInputsRf :
              (NamesMissing(input) /\ update_task(last'.id, input, Epoch)) =>
                  /\ last'.result = "DatabaseError"
                  /\ tasks' = tasks

\* C29: in every reachable state every parent_id names a stored task and
\* every category_id a stored category; a create_task or update_task naming
\* a parent or a category that is not stored fails with DatabaseError and
\* changes no task
C29_ReferentialIntegrity == ReferencesHold /\ [][ReferencesHold' /\ C29_Step]_vars

----------------------------------------------------------------------------
(* Specification of create_task in two groups and of reorder_task with any  *)
(* target position, in range or not, run one after another                  *)

MaxFrTasks == 4

CreateTaskFr ==
    /\ taskSeq < MaxFrTasks
    /\ \E c \in CategoryInputs : create_task(CreateInput(<<"a">>, c, None), Epoch)

\* the oldest task, and an id that names no task
ReorderTaskFr ==
    \E id \in {1, MaxFrTasks + 1}, new_position \in -1..(MaxFrTasks + 1) :
        reorder_task(id, new_position)

NextFr == CreateTaskFr \/ ReorderTaskFr

SpecFrame == InitRecorded /\ [][NextFr]_vars

\* p lies between a and b, inclusive, whichever of a and b is the smaller
Between(p, a, b) == (a <= p /\ p <= b) \/ (b <= p /\ p <= a)

C31_Step ==
    last'.op = "reorder_task" =>
        /\ DOMAIN tasks' = DOMAIN tasks
        /\ taskSeq' = taskSeq
        /\ categories' = categories
        /\ \A i \in DOMAIN tasks :
              /\ [tasks'[i] EXCEPT !.position = tasks[i].position] = tasks[i]
              /\ tasks'[i].position # tasks[i].position =>
                    /\ last'.id \in DOMAIN tasks
                    /\ i \in Siblings(tasks, last'.id)
                    /\ Between(tasks[i].position, last'.old, last'.new)

\* C31: reorder_task(id, new_position), for any new_position, keeps the set of
\* stored tasks and every field of every task other than position, and
\* changes the position only of tasks of the moved task's group whose
\* position lies between the old and the new position, inclusive
C31_ReorderFrame == [][C31_Step]_vars

\* a reorder_task has moved a task past a sibling, in a group that holds a
\* task outside the range of the move, while another group holds a task
C31_Witness ==
    /\ last.op = "reorder_task"
    /\ last.result = "Ok"
    /\ last.id \in DOMAIN tasks
    /\ last.old # last.new
    /\ \E i, j \in Siblings(tasks, last.id) \ {last.id} :
          /\ Between(tasks[i].position, last.old, last.new)
          /\ ~Between(tasks[j].position, last.old, last.new)
    /\ \E k \in DOMAIN tasks : k \notin Siblings(tasks, last.id)

====
